---- MODULE Spec2Model ----
(***************************************************************************)
(* A model of src/code.py: the window sampler and its CBOW / Skip-Gram     *)
(* preprocessing, the weight-tied embedding model and its training loop,   *)
(* the WEAT permutation test, and the hard-debias projection.              *)
(*                                                                         *)
(* The program is a library of functions plus a script; each group of      *)
(* functions gets its own specification over the shared variables          *)
(* (SpecWindow, SpecTrain, SpecWeat, SpecDebias).  The variables of the    *)
(* groups a specification does not exercise stay at their idle values.     *)
(*                                                                         *)
(* Python lists are sequences.  Python is 0-based and TLA+ is 1-based:     *)
(* position k of a Python list is element k+1 of the sequence.             *)
(* Real arithmetic (numpy float64) is modelled by exact rationals; the     *)
(* rounding of IEEE arithmetic is not modelled.                            *)
(***************************************************************************)
EXTENDS Integers, Sequences, FiniteSets, TLC

VARIABLES
    \* ---- window sampler (PART 1 preprocessing) ----
    indices_list,   \* the corpus: a list of index sequences
    window_size,    \* the window_size argument
    op,             \* the function applied last ("none" before any call)
    arg,            \* for "build"/"expand": which sequence of the corpus was used
    sources,        \* first returned list of the last call
    targets,        \* second returned list of the last call
    dataset,        \* <<>>, or the Word2VecDataset built from the last preprocessing result
    \* ---- shared-weight model and training loop ----
    model_kind,     \* "none" before construction, then "SkipGram" or "CBOW"
    heap,           \* parameter objects: object id -> weight matrix (rows of integers)
    emb_weight,     \* object id held by self.emb.weight
    proj_weight,    \* object id held by self.proj.weight
    grad,           \* the .grad of each parameter object (<<>> is None)
    samples,        \* the (x, y) batches the DataLoader draws from
    loader,         \* the batches in the order the loader yields them in this call
    pc,             \* position inside train_w2v
    bi,             \* number of batches fetched so far in this call
    y_pred,         \* local y_pred
    loss,           \* local loss (<<>> while unbound)
    ret,            \* value returned by the last completed train_w2v call
    exc,            \* exception that ended the call ("none" otherwise)
    epoch,          \* number of train_w2v calls started
    trace,          \* history: the operations of this call, each with its batch
    losses,         \* history: the loss computed for each batch of this call
    \* ---- WEAT permutation test ----
    X, Y,           \* target word lists of the running call
    A, B,           \* attribute word lists
    embeddings,     \* word_to_embedding: word -> vector
    s,              \* the statistic of the given (X, Y)
    partitions,     \* list returned by compute_partitions
    pidx,           \* number of partitions the loop has handled
    X_i, Y_i,       \* the split of the current iteration
    s_i,            \* its statistic
    total,          \* local total
    total_true,     \* local total_true
    p,              \* the returned p-value (<<>> before the return)
    wpc,            \* position inside p_value_permutation_test
    swapped,        \* TRUE once the call with X and Y exchanged has started
    p_first,        \* p-value of the call before the exchange
    \* ---- hard debiasing ----
    word_to_embedding,  \* the input table: word -> array object
    arrays,             \* the numpy arrays: object id -> vector of reals
    gender_subspace,    \* the bias direction of the last call
    dop,                \* the function applied last ("none" before any call)
    dword,              \* the word argument of debias_word_embedding
    dresult,            \* array returned by debias_word_embedding (0: none)
    dresult2,           \* array returned by debiasing dresult again (0: none)
    debiased,           \* table returned by hard_debias (<<>>: none)
    \* ---- direct calls of project and cosine_similarity ----
    fa, fb,             \* the arguments a and b
    fop,                \* the function called ("none" before the call)
    fout,               \* the value the call returned (<<>>: none)
    ferr,               \* the exception that ended the call ("none" otherwise)
    \* ---- similar words and analogies ----
    w2v_emb_weight,     \* model.emb.weight: one row of integers for each word
    sim_op,             \* the function called ("none" before the call)
    sim_words,          \* its word arguments
    k_arg,              \* its argument k
    word_emb,           \* the query vector handed to compute_topk_similar
    top_k,              \* top_k.indices inside compute_topk_similar (<<>>: none)
    results,            \* the returned list of words (<<>>: none)
    sim_exc,            \* the exception that ended the call ("none" otherwise)
    \* ---- profession embeddings ----
    prof_table,             \* the word_to_embedding argument: string -> vector
    professions,            \* the professions argument: a list of strings
    prof_idx,               \* number of professions the loop has handled
    profession_embeddings,  \* the local dict profession_embeddings
    prof_lookups,           \* history: the keys looked up in the table, in order
    prof_pc,                \* position inside compute_profession_embeddings
    prof_exc                \* the exception that ended the call ("none" otherwise)

wvars == <<indices_list, window_size, op, arg, sources, targets, dataset>>

tvars == <<model_kind, heap, emb_weight, proj_weight, grad, samples, loader,
           pc, bi, y_pred, loss, ret, exc, epoch, trace, losses>>

pvars == <<X, Y, A, B, embeddings, s, partitions, pidx, X_i, Y_i, s_i,
           total, total_true, p, wpc, swapped, p_first>>

dvars == <<word_to_embedding, arrays, gender_subspace, dop, dword, dresult,
           dresult2, debiased>>

nvars == <<fa, fb, fop, fout, ferr>>

svars == <<w2v_emb_weight, sim_op, sim_words, k_arg, word_emb, top_k, results,
           sim_exc>>

evars == <<prof_table, professions, prof_idx, profession_embeddings,
           prof_lookups, prof_pc, prof_exc>>

vars == <<wvars, tvars, pvars, dvars, nvars, svars, evars>>

\* The variables outside each group, left unchanged by the group's actions.
notWindow == <<evars, svars, tvars, pvars, dvars, nvars>>

notTrain == <<evars, svars, wvars, pvars, dvars, nvars>>

notWeat == <<evars, svars, wvars, tvars, dvars, nvars>>

notDebias == <<evars, svars, wvars, tvars, pvars, nvars>>

notNumeric == <<wvars, tvars, pvars, dvars, svars, evars>>

notSimilar == <<wvars, tvars, pvars, dvars, nvars, evars>>

notProfession == <<wvars, tvars, pvars, dvars, nvars, svars>>

\* ------------------------------------------------------------------------
\* Bounds
\* ------------------------------------------------------------------------
MaxSeqLen == 5      \* longest index sequence of the corpus
MaxSeqs == 2        \* most sequences in the corpus
MaxWindow == 2      \* largest window_size
MaxCorpus == 6      \* most tokens in the whole corpus
NumTokens == 2      \* vocabulary indices 0 .. NumTokens - 1 occur in the corpus
NumWords == 2       \* num_words of the model: rows of the embedding matrix
EmbedDim == 1       \* embed_dim of the model
CtxWidth == 2       \* width of a CBOW context row
MaxBatches == 2     \* most batches a loader yields
MaxSeed == 1        \* the generator is seeded with one of 0 .. MaxSeed
MaxTargets == 2     \* longest target word list X or Y
MaxTargetsTotal == 4  \* most target words in X and Y together
DebiasDim == 2      \* dimension of the embeddings of the debiasing table
MaxCoordSum == 3    \* the coordinates of an embedding table add up to at most this
MaxPairs == 2       \* most gender attribute pairs

\* ------------------------------------------------------------------------
\* Program constants
\* ------------------------------------------------------------------------
n_epochs == 2

\* ------------------------------------------------------------------------
\* Generic helpers
\* ------------------------------------------------------------------------
Min(a, b) == IF a < b THEN a ELSE b

Max(a, b) == IF a > b THEN a ELSE b

SeqsUpTo(S, n) == UNION {[1..k -> S] : k \in 0..n}

\* Python's q[start:stop] for integer start and stop (step 1): a negative
\* bound counts from the end, and bounds are clamped to [0, len(q)].
PySlice(q, start, stop) ==
    LET L == Len(q)
        Norm(k) == IF k < 0 THEN Max(k + L, 0) ELSE Min(k, L)
        lo == Norm(start)
        hi == Norm(stop)
    IN  IF lo >= hi THEN <<>> ELSE SubSeq(q, lo + 1, hi)

\* flatten_list = lambda l: [x for y in l for x in y]
RECURSIVE flatten_list(_)
flatten_list(l) ==
    IF l = <<>> THEN <<>> ELSE Head(l) \o flatten_list(Tail(l))

\* [x] * n
Repeat(x, n) == [k \in 1..n |-> x]

RECURSIVE SumSeq(_)
SumSeq(q) == IF q = <<>> THEN 0 ELSE Head(q) + SumSeq(Tail(q))

\* ------------------------------------------------------------------------
\* PART 1: window sampler
\* ------------------------------------------------------------------------

\* Mutant: the list of windows is not trimmed to the centres that have a
\* full window on both sides.
build_untrimmed(indices, w) ==
    LET current == PySlice(indices, w, 0 - w)
        all == [i \in 1..Len(indices) |->
                   PySlice(indices, (i - 1) - w, i - 1)
                   \o PySlice(indices, i, i + w)]
    IN  <<all, current>>

\* build_current_surrounding_pairs(indices, window_size): returns
\* <<surrounding_indices, current_indices>>.  The comprehension runs over
\* every position i (0-based i - 1 here), negative slice starts included,
\* and the result is trimmed by [window_size:-window_size].
build_current_surrounding_pairs(indices, w) ==
    LET current == PySlice(indices, w, 0 - w)
        all == [i \in 1..Len(indices) |->
                   PySlice(indices, (i - 1) - w, i - 1)
                   \o PySlice(indices, i, i + w)]
        surrounding == PySlice(all, w, 0 - w)
    IN  <<surrounding, current>>

\* Mutant: each centre is repeated window_size times, with window_size
\* taken as half the width of the first window.
expand_half(ix_surroundings, ix_current) ==
    IF Len(ix_surroundings) = 0
    THEN <<(<<>>), (<<>>)>>
    ELSE LET ws == Len(ix_surroundings[1]) \div 2
         IN  <<flatten_list(ix_surroundings),
               flatten_list([k \in 1..Len(ix_current) |->
                                Repeat(ix_current[k], ws)])>>

\* expand_surrounding_words(ix_surroundings, ix_current): window_size is the
\* width of the FIRST window; the windows are flattened and every centre is
\* repeated window_size times.
expand_surrounding_words(ix_surroundings, ix_current) ==
    IF Len(ix_surroundings) = 0
    THEN <<(<<>>), (<<>>)>>
    ELSE LET ws == Len(ix_surroundings[1])
         IN  <<flatten_list(ix_surroundings),
               flatten_list([k \in 1..Len(ix_current) |->
                                Repeat(ix_current[k], ws)])>>

\* Mutant: the corpus is joined into one sequence before windowing.
cbow_joined(il, w) ==
    build_current_surrounding_pairs(flatten_list(il), w)

\* cbow_preprocessing: the loop over indices_list, accumulating with +=.
RECURSIVE cbow_loop(_, _, _, _)
cbow_loop(il, w, src, tgt) ==
    IF il = <<>> THEN <<src, tgt>>
    ELSE LET r == build_current_surrounding_pairs(Head(il), w)
         IN  cbow_loop(Tail(il), w, src \o r[1], tgt \o r[2])

cbow_preprocessing(il, w) == cbow_loop(il, w, <<>>, <<>>)

\* skipgram_preprocessing: as cbow_preprocessing, with each sequence's
\* windows expanded before they are accumulated.
RECURSIVE skipgram_loop(_, _, _, _)
skipgram_loop(il, w, src, tgt) ==
    IF il = <<>> THEN <<src, tgt>>
    ELSE LET r == build_current_surrounding_pairs(Head(il), w)
             e == expand_surrounding_words(r[1], r[2])
         IN  skipgram_loop(Tail(il), w, src \o e[1], tgt \o e[2])

skipgram_preprocessing(il, w) == skipgram_loop(il, w, <<>>, <<>>)

\* Word2VecDataset.__init__: stores both lists and asserts equal length.
Word2VecDataset(src, tgt) ==
    IF Len(src) = Len(tgt)
    THEN <<"Word2VecDataset", src, tgt>>
    ELSE <<"AssertionError">>

Tokens == 0..(NumTokens - 1)

ProfessionIdle ==
    /\ prof_table = <<>>
    /\ professions = <<>>
    /\ prof_idx = 0
    /\ profession_embeddings = <<>>
    /\ prof_lookups = <<>>
    /\ prof_pc = "idle"
    /\ prof_exc = "none"

SimilarIdle ==
    /\ w2v_emb_weight = <<>>
    /\ sim_op = "none"
    /\ sim_words = <<>>
    /\ k_arg = 0
    /\ word_emb = <<>>
    /\ top_k = <<>>
    /\ results = <<>>
    /\ sim_exc = "none"

NumericIdle ==
    /\ fa = <<>>
    /\ fb = <<>>
    /\ fop = "none"
    /\ fout = <<>>
    /\ ferr = "none"

DebiasIdle ==
    /\ word_to_embedding = <<>>
    /\ arrays = <<>>
    /\ gender_subspace = <<>>
    /\ dop = "none"
    /\ dword = ""
    /\ dresult = 0
    /\ dresult2 = 0
    /\ debiased = <<>>

WeatIdle ==
    /\ X = <<>>
    /\ Y = <<>>
    /\ A = <<>>
    /\ B = <<>>
    /\ embeddings = <<>>
    /\ s = <<>>
    /\ partitions = <<>>
    /\ pidx = 0
    /\ X_i = <<>>
    /\ Y_i = <<>>
    /\ s_i = <<>>
    /\ total = 0
    /\ total_true = 0
    /\ p = <<>>
    /\ wpc = "idle"
    /\ swapped = FALSE
    /\ p_first = <<>>

TrainIdle ==
    /\ model_kind = "none"
    /\ heap = <<>>
    /\ emb_weight = 0
    /\ proj_weight = 0
    /\ grad = <<>>
    /\ samples = <<>>
    /\ loader = <<>>
    /\ pc = "new"
    /\ bi = 0
    /\ y_pred = <<>>
    /\ loss = <<>>
    /\ ret = <<>>
    /\ exc = "none"
    /\ epoch = 0
    /\ trace = <<>>
    /\ losses = <<>>

WindowIdle ==
    /\ indices_list = <<>>
    /\ window_size = 1
    /\ op = "none"
    /\ arg = 0
    /\ sources = <<>>
    /\ targets = <<>>
    /\ dataset = <<>>

\* The largest token of a token sequence (-1 for the empty one).
RECURSIVE Top(_)
Top(q) == IF q = <<>> THEN 0 - 1 ELSE Max(Head(q), Top(Tail(q)))

\* Token sequences of at most n tokens in which every token is at most one
\* above the tokens before it.  The sampler copies tokens and never reads
\* their values, so every corpus is one of these up to a renaming of its
\* tokens.
RECURSIVE Labelled(_)
Labelled(n) ==
    IF n = 0 THEN {<<>>}
    ELSE LET P == Labelled(n - 1)
         IN  P \cup UNION {{Append(q, t) : t \in {u \in Tokens : u <= Top(q) + 1}} :
                               q \in {r \in P : Len(r) = n - 1}}

\* The token sequence flat cut into consecutive sequences of the lengths lens.
RECURSIVE Cut(_, _)
Cut(flat, lens) ==
    IF lens = <<>> THEN <<>>
    ELSE <<SubSeq(flat, 1, Head(lens))>>
         \o Cut(SubSeq(flat, Head(lens) + 1, Len(flat)), Tail(lens))

\* The corpora: at most MaxSeqs sequences of at most MaxSeqLen tokens each
\* and MaxCorpus tokens together.
Corpora ==
    UNION {{Cut(flat, lens) : flat \in {f \in Labelled(MaxCorpus) : Len(f) = SumSeq(lens)}} :
              lens \in SeqsUpTo(0..MaxSeqLen, MaxSeqs)}

InitWindow ==
    /\ indices_list \in Corpora
    /\ window_size \in 1..MaxWindow
    /\ op = "none"
    /\ arg = 0
    /\ sources = <<>>
    /\ targets = <<>>
    /\ dataset = <<>>
    /\ TrainIdle
    /\ WeatIdle
    /\ DebiasIdle
    /\ NumericIdle
    /\ SimilarIdle
    /\ ProfessionIdle

\* A call of build_current_surrounding_pairs on one sequence of the corpus.
BuildPairs ==
    \E k \in 1..Len(indices_list) :
        LET r == build_current_surrounding_pairs(indices_list[k], window_size)
        IN  /\ op' = "build"
            /\ arg' = k
            /\ sources' = r[1]
            /\ targets' = r[2]
            /\ dataset' = <<>>
            /\ UNCHANGED <<indices_list, window_size>>
            /\ UNCHANGED notWindow

\* A call of expand_surrounding_words on the windows and centres that
\* build_current_surrounding_pairs returned (as at lines 759 and 395).
Expand ==
    /\ op = "build"
    /\ LET r == expand_surrounding_words(sources, targets)
       IN  /\ op' = "expand"
           /\ sources' = r[1]
           /\ targets' = r[2]
    /\ UNCHANGED <<indices_list, window_size, arg, dataset>>
    /\ UNCHANGED notWindow

Cbow ==
    /\ LET r == cbow_preprocessing(indices_list, window_size)
       IN  /\ op' = "cbow"
           /\ sources' = r[1]
           /\ targets' = r[2]
    /\ arg' = 0
    /\ dataset' = <<>>
    /\ UNCHANGED <<indices_list, window_size>>
    /\ UNCHANGED notWindow

Skipgram ==
    /\ LET r == skipgram_preprocessing(indices_list, window_size)
       IN  /\ op' = "skipgram"
           /\ sources' = r[1]
           /\ targets' = r[2]
    /\ arg' = 0
    /\ dataset' = <<>>
    /\ UNCHANGED <<indices_list, window_size>>
    /\ UNCHANGED notWindow

\* Word2VecDataset(sources, targets) on a preprocessing result (lines 782, 800).
NewDataset ==
    /\ op \in {"cbow", "skipgram"}
    /\ dataset = <<>>
    /\ dataset' = Word2VecDataset(sources, targets)
    /\ UNCHANGED <<indices_list, window_size, op, arg, sources, targets>>
    /\ UNCHANGED notWindow

NextWindow ==
    \/ BuildPairs
    \/ Expand
    \/ Cbow
    \/ Skipgram
    \/ NewDataset

SpecWindow == InitWindow /\ [][NextWindow]_vars

\* ------------------------------------------------------------------------
\* Properties of the window sampler
\* ------------------------------------------------------------------------

\* The window with 0-based number j of a sequence, stated by position: the
\* w tokens before the centre (0-based position j + w) followed by the w
\* tokens after it.
WindowAt(seq, j, w) ==
    [t \in 1..(2 * w) |-> IF t <= w THEN seq[j + t] ELSE seq[j + 1 + t]]

CentreAt(seq, j, w) == seq[j + w + 1]

NumWindows(seq, w) == Max(0, Len(seq) - 2 * w)

\* Number of windows of the first i sequences of the corpus.
RECURSIVE CumWindows(_, _, _)
CumWindows(il, i, w) ==
    IF i = 0 THEN 0 ELSE CumWindows(il, i - 1, w) + NumWindows(il[i], w)

\* The sequence that owns the window with 1-based number k of the corpus.
OwnerOf(il, k, w) ==
    CHOOSE i \in 1..Len(il) :
        CumWindows(il, i - 1, w) < k /\ k <= CumWindows(il, i, w)

\* C1: build_current_surrounding_pairs on a sequence of length L with
\* window_size w >= 1 returns exactly max(0, L - 2w) windows and as many
\* centres; centre j is indices[j+w], window j is the w tokens before it
\* followed by the w tokens after it (width 2w, all positions inside the
\* sequence); both lists are empty when L <= 2w.
C1_WindowsExact ==
    op = "build" =>
        LET ind == indices_list[arg]
            w == window_size
            n == NumWindows(ind, w)
        IN  /\ Len(sources) = n
            /\ Len(targets) = n
            /\ \A j \in 0..(n - 1) :
                  /\ targets[j + 1] = ind[j + w + 1]
                  /\ Len(sources[j + 1]) = 2 * w
                  /\ j + 1 >= 1 /\ j + 2 * w + 1 <= Len(ind)
                  /\ sources[j + 1] = WindowAt(ind, j, w)
            /\ (Len(ind) <= 2 * w => sources = <<>> /\ targets = <<>>)

\* A sequence of five tokens sampled with window_size 2: one full window,
\* whose centre differs from the token before it.
C1_Witness ==
    /\ op = "build"
    /\ window_size = 2
    /\ Len(indices_list[arg]) = 5
    /\ Len(sources) = 1
    /\ Len(sources[1]) = 4
    /\ sources[1][2] # sources[1][3]
    /\ targets[1] # sources[1][2]

\* C7: expand_surrounding_words turns n windows of width 2w and their n
\* centres into exactly 2w*n pairs in pairing order: output pair number
\* j*2w + p is (window_j[p], centre_j); an empty window list gives two
\* empty lists.
C7_ExpandPairsInOrder ==
    op = "expand" =>
        LET ind == indices_list[arg]
            w == window_size
            n == NumWindows(ind, w)
            W == 2 * w
        IN  /\ Len(sources) = W * n
            /\ Len(targets) = W * n
            /\ \A j \in 0..(n - 1) : \A t \in 0..(W - 1) :
                  /\ sources[j * W + t + 1] = WindowAt(ind, j, w)[t + 1]
                  /\ targets[j * W + t + 1] = CentreAt(ind, j, w)
            /\ (n = 0 => sources = <<>> /\ targets = <<>>)

\* Two windows of width 2 expanded into four pairs with differing centres.
C7_Witness ==
    /\ op = "expand"
    /\ window_size = 1
    /\ Len(sources) = 4
    /\ Len(targets) = 4
    /\ targets[1] # targets[3]

\* C8: cbow_preprocessing and skipgram_preprocessing work per sequence and
\* concatenate in corpus order: the CBOW output has exactly the sum of
\* max(0, L_i - 2w) windows (Skip-Gram 2w times as many pairs), sources and
\* targets have equal length (the dataset's assertion holds), and every
\* window or pair is taken from the single sequence that owns its position.
C8_PerSequenceConcatenation ==
    LET il == indices_list
        w == window_size
        W == 2 * w
        count == CumWindows(il, Len(il), w)
    IN  /\ op = "cbow" =>
              /\ Len(sources) = count
              /\ Len(targets) = Len(sources)
              /\ \A k \in 1..Len(sources) :
                    LET i == OwnerOf(il, k, w)
                        j == k - CumWindows(il, i - 1, w) - 1
                    IN  /\ sources[k] = WindowAt(il[i], j, w)
                        /\ targets[k] = CentreAt(il[i], j, w)
        /\ op = "skipgram" =>
              /\ Len(sources) = W * count
              /\ Len(targets) = Len(sources)
              /\ \A q \in 0..(Len(sources) - 1) :
                    LET k == (q \div W) + 1
                        t == q % W
                        i == OwnerOf(il, k, w)
                        j == k - CumWindows(il, i - 1, w) - 1
                    IN  /\ sources[q + 1] = WindowAt(il[i], j, w)[t + 1]
                        /\ targets[q + 1] = CentreAt(il[i], j, w)
        /\ op \in {"cbow", "skipgram"} => dataset # <<"AssertionError">>

\* A corpus of two sequences that both contribute windows, preprocessed for
\* Skip-Gram and wrapped in a dataset.
C8_Witness ==
    /\ op = "skipgram"
    /\ Len(indices_list) = 2
    /\ \A i \in 1..2 : Len(indices_list[i]) > 2 * window_size
    /\ dataset # <<>>
    /\ Len(sources) >= 4

\* ------------------------------------------------------------------------
\* PART 1: shared-weight model and training loop
\*
\* A weight matrix is a sequence of NumWords rows of EmbedDim integers.
\* Parameters are objects on a heap, so that two references to one object
\* and two equal copies are different states.  A batch holds one row:
\* [x |-> context indices, y |-> centre index]; x has one index for
\* Skip-Gram and CtxWidth indices for CBOW.  Back-propagation follows the
\* chain rule through the projection and the lookup; the residual
\* softmax(y_pred) - onehot(y), whose entries lie in (-1, 0) for the target
\* and in (0, 1) elsewhere, is replaced by its sign.  The optimizer is Adam,
\* whose update of an entry has the sign of the entry's gradient and about
\* the size of the learning rate: a step moves an entry by one unit.
\* ------------------------------------------------------------------------

Dot(a, b) == SumSeq([k \in 1..Len(a) |-> a[k] * b[k]])

VecAdd(a, b) == [k \in 1..Len(a) |-> a[k] + b[k]]

MatAdd(M, N) == [r \in 1..Len(M) |-> VecAdd(M[r], N[r])]

Sign(n) == IF n > 0 THEN 1 ELSE IF n < 0 THEN 0 - 1 ELSE 0

\* One update of a parameter M with gradient G by torch.optim.Adam: every
\* entry moves against the sign of its gradient, by one unit here.
adam_step(M, G) ==
    [r \in 1..Len(M) |-> [k \in 1..Len(M[r]) |-> M[r][k] - Sign(G[r][k])]]

ZeroVec == [k \in 1..EmbedDim |-> 0]

RECURSIVE SumRows(_)
SumRows(rows) == IF rows = <<>> THEN ZeroVec ELSE VecAdd(Head(rows), SumRows(Tail(rows)))

VecScale(c, a) == [k \in 1..Len(a) |-> c * a[k]]

\* The initial values of the parameter created as number obj after
\* torch.manual_seed(seed): what the generator yields is a function of the
\* seed and of the place of the draw, here entries in 0 .. MaxSeed.
initial_weight(seed, obj) ==
    [r \in 1..NumWords |-> [k \in 1..EmbedDim |-> (seed + obj + r + k) % (MaxSeed + 1)]]

InRange(ix) == ix \in 0..(NumWords - 1)

\* Mutant: the projection gets a copy of the embedding's values instead of
\* the embedding's parameter object.
bind_weights_by_copy(h, emb_w, proj_w) ==
    [heap |-> [h EXCEPT ![proj_w] = h[emb_w]], proj |-> proj_w]

\* SharedNNLM.bind_weights: proj.weight = emb.weight.  Returns the heap and
\* the object that proj.weight refers to afterwards.
bind_weights(h, emb_w, proj_w) ==
    [heap |-> h, proj |-> emb_w]

\* nn.Embedding lookup of one context: one row per index.
Embedding(W, x) == [k \in 1..Len(x) |-> W[x[k] + 1]]

\* nn.Linear without bias: one logit per vocabulary index.
Projection(W, h) == [v \in 1..Len(W) |-> Dot(h, W[v])]

\* SkipGram.forward: self.proj(self.emb(x)) for a single context index.
SkipGram_forward(Wemb, Wproj, x) == Projection(Wproj, Embedding(Wemb, x)[1])

\* CBOW.forward: self.proj(self.emb(x).sum(axis=1)).
CBOW_forward(Wemb, Wproj, x) == Projection(Wproj, SumRows(Embedding(Wemb, x)))

forward(kind, Wemb, Wproj, x) ==
    IF kind = "SkipGram" THEN SkipGram_forward(Wemb, Wproj, x)
    ELSE CBOW_forward(Wemb, Wproj, x)

\* F.cross_entropy(y_pred, y), kept as a term of its arguments.
cross_entropy(logits, y) == <<"cross_entropy", logits, y>>

\* model.parameters(): the distinct parameter objects of emb and proj.
parameters == {emb_weight, proj_weight}

\* Hidden vector of the forward pass: the looked-up row (Skip-Gram) or the
\* sum of the looked-up rows (CBOW).
Hidden(kind, Wemb, x) ==
    IF kind = "SkipGram" THEN Embedding(Wemb, x)[1] ELSE SumRows(Embedding(Wemb, x))

\* Sign of d loss / d logits for target index y.
dLogits(y) == [v \in 1..NumWords |-> IF v = y + 1 THEN 0 - 1 ELSE 1]

\* d loss / d hidden: the residual pulled back through the projection.
dHidden(Wproj, y) ==
    SumRows([v \in 1..NumWords |-> VecScale(dLogits(y)[v], Wproj[v])])

\* Gradient through the projection view: row v is residual[v] * hidden.
ProjGrad(h, y) == [v \in 1..NumWords |-> VecScale(dLogits(y)[v], h)]

\* Gradient through the embedding view: every looked-up position adds
\* d loss / d hidden to its row; rows that were not looked up stay zero.
EmbGrad(Wproj, x, y) ==
    [v \in 1..NumWords |->
        VecScale(Cardinality({k \in 1..Len(x) : x[k] + 1 = v}), dHidden(Wproj, y))]

\* Accumulation of a gradient into a .grad that may be None.
AddGrad(g, delta) == IF g = <<>> THEN delta ELSE MatAdd(g, delta)

\* The context rows a dataset of the given model kind can hold; index
\* NumWords is outside the vocabulary.  A Skip-Gram row is one index.  A
\* CBOW row is a window of a text: the rows are the windows of the texts
\* i, i, i, ... and i, i+1, i+2, ... over the indices 0 .. NumWords.
Contexts(kind) ==
    IF kind = "SkipGram" THEN [1..1 -> 0..NumWords]
    ELSE {[k \in 1..CtxWidth |-> (i + d * (k - 1)) % (NumWords + 1)] :
             i \in 0..NumWords, d \in 0..1}

Batches(kind) == [x : Contexts(kind), y : 0..(NumWords - 1)]

\* A number for a batch, to list the samples of a dataset in one order.
RECURSIVE RowKey(_)
RowKey(x) == IF x = <<>> THEN 0 ELSE Head(x) + (NumWords + 1) * RowKey(Tail(x))

BatchKey(b) == b.y + NumWords * RowKey(b.x)

\* The datasets of at most MaxBatches samples.  The loader yields the
\* samples of a dataset in every order, so a dataset is listed with its
\* samples in one order only.
Datasets(kind) ==
    {q \in SeqsUpTo(Batches(kind), MaxBatches) :
        \A a \in 1..Len(q) : \A b \in 1..Len(q) :
            a < b => BatchKey(q[a]) <= BatchKey(q[b])}

LoaderOrders(q) ==
    {r \in [1..Len(q) -> 1..Len(q)] : \A a, b \in 1..Len(q) : a # b => r[a] # r[b]}

InitTrain ==
    /\ TrainIdle
    /\ WindowIdle
    /\ WeatIdle
    /\ DebiasIdle
    /\ NumericIdle
    /\ SimilarIdle
    /\ ProfessionIdle

\* SkipGram.__init__ / CBOW.__init__ with SharedNNLM.__init__: object 1 is
\* the nn.Embedding weight, object 2 the nn.Linear weight, both initialised
\* from the seeded generator, then bound.  The dataset and loader are built with it.
Construct ==
    /\ pc = "new"
    /\ \E kind \in {"SkipGram", "CBOW"}, seed \in 0..MaxSeed :
          LET b == bind_weights(<<initial_weight(seed, 1), initial_weight(seed, 2)>>, 1, 2)
          IN  /\ model_kind' = kind
              /\ heap' = b.heap
              /\ emb_weight' = 1
              /\ proj_weight' = b.proj
              /\ samples' \in Datasets(kind)
    /\ grad' = <<(<<>>), (<<>>)>>
    /\ pc' = "idle"
    /\ UNCHANGED <<loader, bi, y_pred, loss, ret, exc, epoch, trace, losses>>
    /\ UNCHANGED notTrain

\* Entry of train_w2v from the epoch loop: model.train() and the loader's
\* iterator, which yields the batches in a freshly shuffled order.
TrainStart ==
    /\ pc \in {"idle", "returned"}
    /\ epoch < n_epochs
    /\ \E r \in LoaderOrders(samples) :
          loader' = [k \in 1..Len(samples) |-> samples[r[k]]]
    /\ epoch' = epoch + 1
    /\ bi' = 0
    /\ y_pred' = <<>>
    /\ loss' = <<>>
    /\ trace' = <<>>
    /\ losses' = <<>>
    /\ pc' = "loop"
    /\ UNCHANGED <<model_kind, heap, emb_weight, proj_weight, grad, samples, ret, exc>>
    /\ UNCHANGED notTrain

\* for x, y in loader: the next batch.
FetchBatch ==
    /\ pc = "loop"
    /\ bi < Len(loader)
    /\ bi' = bi + 1
    /\ pc' = "zero_grad"
    /\ UNCHANGED <<model_kind, heap, emb_weight, proj_weight, grad, samples, loader,
                   y_pred, loss, ret, exc, epoch, trace, losses>>
    /\ UNCHANGED notTrain

\* optimizer.zero_grad()
ZeroGrad ==
    /\ pc = "zero_grad"
    /\ grad' = [o \in DOMAIN grad |-> IF o \in parameters THEN <<>> ELSE grad[o]]
    /\ trace' = Append(trace, <<"zero_grad", loader[bi]>>)
    /\ pc' = "forward"
    /\ UNCHANGED <<model_kind, heap, emb_weight, proj_weight, samples, loader, bi,
                   y_pred, loss, ret, exc, epoch, losses>>
    /\ UNCHANGED notTrain

\* Mutant: a batch with an index outside the vocabulary is skipped and the
\* loop goes on with the next batch.
ForwardSkipping ==
    /\ pc = "forward"
    /\ LET x == loader[bi].x
       IN  IF \A k \in 1..Len(x) : InRange(x[k])
           THEN /\ y_pred' = forward(model_kind, heap[emb_weight], heap[proj_weight], x)
                /\ trace' = Append(trace, <<"forward", loader[bi]>>)
                /\ pc' = "loss"
           ELSE /\ pc' = "loop"
                /\ UNCHANGED <<y_pred, trace>>
    /\ UNCHANGED <<model_kind, heap, emb_weight, proj_weight, grad, samples, loader, bi,
                   loss, ret, exc, epoch, losses>>
    /\ UNCHANGED notTrain

\* y_pred = model(x): the embedding lookup raises IndexError on an index
\* outside [0, num_words), and the exception leaves train_w2v.
Forward ==
    /\ pc = "forward"
    /\ LET x == loader[bi].x
       IN  IF \A k \in 1..Len(x) : InRange(x[k])
           THEN /\ y_pred' = forward(model_kind, heap[emb_weight], heap[proj_weight], x)
                /\ trace' = Append(trace, <<"forward", loader[bi]>>)
                /\ pc' = "loss"
                /\ exc' = exc
           ELSE /\ pc' = "raised"
                /\ exc' = "IndexError"
                /\ UNCHANGED <<y_pred, trace>>
    /\ UNCHANGED <<model_kind, heap, emb_weight, proj_weight, grad, samples, loader, bi,
                   loss, ret, epoch, losses>>
    /\ UNCHANGED notTrain

\* loss = F.cross_entropy(y_pred, y)
Loss ==
    /\ pc = "loss"
    /\ loss' = cross_entropy(y_pred, loader[bi].y)
    /\ losses' = Append(losses, loss')
    /\ trace' = Append(trace, <<"loss", loader[bi]>>)
    /\ pc' = "backward"
    /\ UNCHANGED <<model_kind, heap, emb_weight, proj_weight, grad, samples, loader, bi,
                   y_pred, ret, exc, epoch>>
    /\ UNCHANGED notTrain

\* loss.backward(): the gradient through the embedding lookup is
\* accumulated into the .grad of the object emb.weight refers to, the
\* gradient through the projection into the .grad of the object
\* proj.weight refers to.
Backward ==
    /\ pc = "backward"
    /\ LET x == loader[bi].x
           y == loader[bi].y
           gE == EmbGrad(heap[proj_weight], x, y)
           gP == ProjGrad(Hidden(model_kind, heap[emb_weight], x), y)
           g1 == [grad EXCEPT ![emb_weight] = AddGrad(@, gE)]
       IN  grad' = [g1 EXCEPT ![proj_weight] = AddGrad(@, gP)]
    /\ trace' = Append(trace, <<"backward", loader[bi]>>)
    /\ pc' = "step"
    /\ UNCHANGED <<model_kind, heap, emb_weight, proj_weight, samples, loader, bi,
                   y_pred, loss, ret, exc, epoch, losses>>
    /\ UNCHANGED notTrain

\* optimizer.step(): every parameter object with a gradient is updated in
\* place.
OptStep ==
    /\ pc = "step"
    /\ heap' = [o \in DOMAIN heap |->
                   IF o \in parameters /\ grad[o] # <<>>
                   THEN adam_step(heap[o], grad[o]) ELSE heap[o]]
    /\ trace' = Append(trace, <<"step", loader[bi]>>)
    /\ pc' = "loop"
    /\ UNCHANGED <<model_kind, emb_weight, proj_weight, grad, samples, loader, bi,
                   y_pred, loss, ret, exc, epoch, losses>>
    /\ UNCHANGED notTrain

\* Mutant: the loss of the first batch is returned.
ReturnFirstLoss ==
    /\ pc = "loop"
    /\ bi = Len(loader)
    /\ IF loss = <<>>
       THEN /\ pc' = "raised"
            /\ exc' = "UnboundLocalError"
            /\ ret' = ret
       ELSE /\ pc' = "returned"
            /\ ret' = losses[1]
            /\ exc' = exc
    /\ UNCHANGED <<model_kind, heap, emb_weight, proj_weight, grad, samples, loader, bi,
                   y_pred, loss, epoch, trace, losses>>
    /\ UNCHANGED notTrain

\* return loss, once the loader is exhausted; the local is unbound when the
\* loader yielded no batch.
Return ==
    /\ pc = "loop"
    /\ bi = Len(loader)
    /\ IF loss = <<>>
       THEN /\ pc' = "raised"
            /\ exc' = "UnboundLocalError"
            /\ ret' = ret
       ELSE /\ pc' = "returned"
            /\ ret' = loss
            /\ exc' = exc
    /\ UNCHANGED <<model_kind, heap, emb_weight, proj_weight, grad, samples, loader, bi,
                   y_pred, loss, epoch, trace, losses>>
    /\ UNCHANGED notTrain

NextTrain ==
    \/ Construct
    \/ TrainStart
    \/ FetchBatch
    \/ ZeroGrad
    \/ Forward
    \/ Loss
    \/ Backward
    \/ OptStep
    \/ Return

SpecTrain == InitTrain /\ [][NextTrain]_vars

\* ------------------------------------------------------------------------
\* Properties of the shared-weight model and the training loop
\* ------------------------------------------------------------------------

\* The five operations train_w2v performs on one batch, in order.
StepOps == <<"zero_grad", "forward", "loss", "backward", "step">>

\* C2: the shared weight is one object under two views: after construction
\* of a SkipGram or CBOW model and any sequence of optimizer updates, the
\* embedding weight and the projection weight are the same object and equal
\* entry for entry: row i of the embedding lookup is the projection weight
\* of vocabulary index i.
C2_SharedWeight ==
    model_kind # "none" =>
        /\ emb_weight = proj_weight
        /\ heap[emb_weight] = heap[proj_weight]
        /\ \A i \in 0..(NumWords - 1) :
              Embedding(heap[emb_weight], <<i>>)[1] = heap[proj_weight][i + 1]

\* In the second epoch an optimizer step has been applied with a non-zero
\* gradient.
C2_Witness ==
    /\ model_kind # "none"
    /\ pc = "loop"
    /\ bi >= 1
    /\ grad[emb_weight] # <<>>
    /\ grad[emb_weight] # [r \in 1..NumWords |-> ZeroVec]
    /\ epoch = 2

\* C6: a train_w2v call that returns went over a loader of n >= 1 batches
\* and performed exactly n optimizer steps, one per batch in loader order,
\* each preceded on the same batch by zero_grad, forward, loss and backward;
\* the loss of a batch is the cross-entropy of the forward pass on that
\* batch with the weights of that moment; the value returned is the loss of
\* the n-th batch.
C6_TrainLoop ==
    /\ pc \in {"backward", "step"} =>
          /\ loss = cross_entropy(forward(model_kind, heap[emb_weight],
                                          heap[proj_weight], loader[bi].x),
                                  loader[bi].y)
          /\ Len(losses) = bi
          /\ losses[bi] = loss
    /\ pc = "returned" =>
          LET n == Len(loader)
          IN  /\ n >= 1
              /\ Len(trace) = 5 * n
              /\ \A k \in 1..n : \A t \in 1..5 :
                    trace[5 * (k - 1) + t] = <<StepOps[t], loader[k]>>
              /\ Cardinality({t \in 1..Len(trace) : trace[t][1] = "step"}) = n
              /\ Len(losses) = n
              /\ ret = losses[n]

\* The second epoch returned after two batches whose losses differ.
C6_Witness ==
    /\ pc = "returned"
    /\ epoch = 2
    /\ Len(loader) = 2
    /\ losses[1] # losses[2]
    /\ ret = losses[2]

\* The batch holds an index outside [0, num_words).
OutOfRange(b) == \E k \in 1..Len(b.x) : ~InRange(b.x[k])

Abs(n) == IF n < 0 THEN 0 - n ELSE n

\* Greatest common divisor of two naturals (Euclid).
GcdF[a \in Nat, b \in Nat] == IF b = 0 THEN a ELSE GcdF[b, a % b]

Gcd(a, b) == GcdF[a, b]

NaN == <<0, 0>>

IsNaN(r) == r[2] = 0

\* n / d as a rational in lowest terms.
Rat(n, d) ==
    IF d = 0 THEN NaN
    ELSE LET g == Gcd(Abs(n), Abs(d))
             sg == IF d < 0 THEN 0 - 1 ELSE 1
         IN  <<(sg * n) \div g, (sg * d) \div g>>

RatAdd(a, b) ==
    IF IsNaN(a) \/ IsNaN(b) THEN NaN ELSE Rat(a[1] * b[2] + b[1] * a[2], a[2] * b[2])

RatSub(a, b) ==
    IF IsNaN(a) \/ IsNaN(b) THEN NaN ELSE Rat(a[1] * b[2] - b[1] * a[2], a[2] * b[2])

\* a > b; every comparison with NaN is false.
RatGreater(a, b) ==
    ~IsNaN(a) /\ ~IsNaN(b) /\ a[1] * b[2] > b[1] * a[2]

\* np.sum of a list of reals (0 for the empty list).
RECURSIVE RatSum(_)
RatSum(q) == IF q = <<>> THEN <<0, 1>> ELSE RatAdd(Head(q), RatSum(Tail(q)))

\* np.mean of a list of reals (NaN for the empty list).
RatMean(q) ==
    LET t == RatSum(q)
    IN  IF IsNaN(t) \/ Len(q) = 0 THEN NaN ELSE Rat(t[1], t[2] * Len(q))

\* Integer square roots of the squared lengths 0 .. 50.
Sqrt == [n \in 0..50 |-> CHOOSE r \in 0..n : r * r <= n /\ (r + 1) * (r + 1) > n]

\* np.linalg.norm, for vectors whose norm is an integer.
Norm(v) == Sqrt[Dot(v, v)]

\* cosine_similarity(a, b) = np.dot(a, b) / (norm_a * norm_b)
cosine_similarity(a, b) ==
    LET norm_a == Norm(a)
        norm_b == Norm(b)
    IN  Rat(Dot(a, b), norm_a * norm_b)

\* weat_association(w, A, B, word_to_embedding)
weat_association(w, AA, BB, E) ==
    LET cos_A_w == [k \in 1..Len(AA) |-> cosine_similarity(E[w], E[AA[k]])]
        cos_B_w == [k \in 1..Len(BB) |-> cosine_similarity(E[w], E[BB[k]])]
    IN  RatSub(RatMean(cos_A_w), RatMean(cos_B_w))

\* weat_differential_association(X, Y, A, B, word_to_embedding, ...)
weat_differential_association(XX, YY, AA, BB, E) ==
    LET sx_AB == [k \in 1..Len(XX) |-> weat_association(XX[k], AA, BB, E)]
        sy_AB == [k \in 1..Len(YY) |-> weat_association(YY[k], AA, BB, E)]
    IN  RatSub(RatSum(sx_AB), RatSum(sy_AB))

\* itertools.combinations(q, r): the r-element subsequences of q, chosen
\* by position, in lexicographic order of the positions.
RECURSIVE combinations(_, _)
combinations(q, r) ==
    IF r = 0 THEN <<(<<>>)>>
    ELSE IF Len(q) < r THEN <<>>
    ELSE LET with == combinations(Tail(q), r - 1)
         IN  [k \in 1..Len(with) |-> <<Head(q)>> \o with[k]]
             \o combinations(Tail(q), r)

\* Mutant: a split and its complement are enumerated once, by keeping the
\* first word on the left.
compute_partitions_unordered(XY) ==
    IF Len(XY) < 2 THEN combinations(XY, Len(XY) \div 2)
    ELSE LET rest == combinations(Tail(XY), (Len(XY) \div 2) - 1)
         IN  [k \in 1..Len(rest) |-> <<Head(XY)>> \o rest[k]]

\* compute_partitions(XY) = list(itertools.combinations(XY, len(XY) // 2))
compute_partitions(XY) == combinations(XY, Len(XY) \div 2)

Range(q) == {q[k] : k \in 1..Len(q)}

\* Y_i = [w for w in XY if w not in X_i]
Complement(XY, Xi) ==
    LET keep(w) == w \notin Range(Xi)
    IN  SelectSeq(XY, keep)

\* Mutant: a tie counts as exceeding.
ExceedsOrTies(si, ss) == ~RatGreater(ss, si)

\* if s_i > s
Exceeds(si, ss) == RatGreater(si, ss)

TargetOrder == <<"t1", "t2", "t3", "t4">>

TargetWords == {TargetOrder[k] : k \in 1..Len(TargetOrder)}

\* The target word lists of at most n words, repeated words included, each
\* written in the order of TargetOrder.
TargetLists(n) ==
    {[k \in 1..Len(q) |-> TargetOrder[q[k]]] :
        q \in {r \in SeqsUpTo(1..Len(TargetOrder), n) :
                  \A a \in 1..Len(r) : \A b \in 1..Len(r) : a < b => r[a] <= r[b]}}

AttributeLists == {<<"a1", "a3">>}

\* The embedding tables: the attribute words and the target words t1, t2,
\* t4 have fixed vectors of norm 5; t3 lies between t2 and t4, or
\* coincides with t2.
EmbeddingTables ==
    {[w \in TargetWords \cup {"a1", "a2", "a3"} |->
         CASE w = "a1" -> <<5, 0>>
           [] w = "a2" -> <<0, 5>>
           [] w = "a3" -> <<3, 4>>
           [] w = "t1" -> <<5, 0>>
           [] w = "t2" -> <<4, 3>>
           [] w = "t3" -> v
           [] w = "t4" -> <<0, 5>>] : v \in {<<3, 4>>, <<4, 3>>}}

InitWeat ==
    /\ X \in TargetLists(MaxTargets)
    /\ Y \in TargetLists(MaxTargets)
    /\ Len(X) + Len(Y) <= MaxTargetsTotal
    /\ A \in AttributeLists
    /\ B = <<"a2">>
    /\ embeddings \in EmbeddingTables
    /\ s = <<>>
    /\ partitions = <<>>
    /\ pidx = 0
    /\ X_i = <<>>
    /\ Y_i = <<>>
    /\ s_i = <<>>
    /\ total = 0
    /\ total_true = 0
    /\ p = <<>>
    /\ wpc = "call"
    /\ swapped = FALSE
    /\ p_first = <<>>
    /\ WindowIdle
    /\ TrainIdle
    /\ DebiasIdle
    /\ NumericIdle
    /\ SimilarIdle
    /\ ProfessionIdle

\* p_value_permutation_test up to the loop: the statistic of (X, Y), the
\* partitions of XY = X + Y, and the counters.
PStart ==
    /\ wpc = "call"
    /\ s' = weat_differential_association(X, Y, A, B, embeddings)
    /\ partitions' = compute_partitions(X \o Y)
    /\ total' = 0
    /\ total_true' = 0
    /\ pidx' = 0
    /\ X_i' = <<>>
    /\ Y_i' = <<>>
    /\ s_i' = <<>>
    /\ wpc' = "loop"
    /\ UNCHANGED <<X, Y, A, B, embeddings, p, swapped, p_first>>
    /\ UNCHANGED notWeat

\* One iteration of for X_i in partitions.
PIter ==
    /\ wpc = "loop"
    /\ pidx < Len(partitions)
    /\ LET Xi == partitions[pidx + 1]
           Yi == Complement(X \o Y, Xi)
           si == weat_differential_association(Xi, Yi, A, B, embeddings)
       IN  /\ X_i' = Xi
           /\ Y_i' = Yi
           /\ s_i' = si
           /\ total_true' = IF Exceeds(si, s) THEN total_true + 1 ELSE total_true
    /\ total' = total + 1
    /\ pidx' = pidx + 1
    /\ UNCHANGED <<X, Y, A, B, embeddings, s, partitions, p, wpc, swapped, p_first>>
    /\ UNCHANGED notWeat

\* p = total_true / total; return p
PReturn ==
    /\ wpc = "loop"
    /\ pidx = Len(partitions)
    /\ IF total = 0
       THEN /\ wpc' = "ZeroDivisionError"
            /\ p' = p
       ELSE /\ wpc' = "done"
            /\ p' = Rat(total_true, total)
    /\ UNCHANGED <<X, Y, A, B, embeddings, s, partitions, pidx, X_i, Y_i, s_i,
                   total, total_true, swapped, p_first>>
    /\ UNCHANGED notWeat

\* A second call, p_value_permutation_test(Y, X, A, B, word_to_embedding),
\* after the first has returned.
PSwap ==
    /\ wpc = "done"
    /\ ~swapped
    /\ X' = Y
    /\ Y' = X
    /\ p_first' = p
    /\ p' = <<>>
    /\ swapped' = TRUE
    /\ wpc' = "call"
    /\ UNCHANGED <<A, B, embeddings, s, partitions, pidx, X_i, Y_i, s_i, total, total_true>>
    /\ UNCHANGED notWeat

NextWeat ==
    \/ PStart
    \/ PIter
    \/ PReturn
    \/ PSwap

SpecWeat == InitWeat /\ [][NextWeat]_vars

\* ------------------------------------------------------------------------
\* Properties of the permutation test
\* ------------------------------------------------------------------------

RECURSIVE Factorial(_)
Factorial(n) == IF n = 0 THEN 1 ELSE n * Factorial(n - 1)

Binomial(n, k) == Factorial(n) \div (Factorial(k) * Factorial(n - k))

\* Number of occurrences of w in the list q.
Count(w, q) == Cardinality({k \in 1..Len(q) : q[k] = w})

DistinctWords(q) == \A i, j \in 1..Len(q) : i # j => q[i] # q[j]

\* Sum of the associations of a set of words.
RECURSIVE AssocSum(_)
AssocSum(S) ==
    IF S = {} THEN <<0, 1>>
    ELSE LET w == CHOOSE v \in S : TRUE
         IN  RatAdd(weat_association(w, A, B, embeddings), AssocSum(S \ {w}))

\* The WEAT statistic of the split of the word set U into S and U \ S.
SplitStatistic(S, U) == RatSub(AssocSum(S), AssocSum(U \ S))

HalfSubsets(U) == {S \in SUBSET U : 2 * Cardinality(S) = Cardinality(U)}

\* C3: for |X| = |Y| = n the test evaluates exactly C(2n, n) partitions of
\* X + Y, every size-n combination once (a split and its complement are
\* two draws), and returns the number of partitions whose statistic is
\* strictly greater than the statistic s of (X, Y), divided by that total:
\* a value in [0, 1].
C3_PValueOverAllCombinations ==
    (wpc = "done" /\ Len(X) = Len(Y)) =>
        LET n == Len(X)
            XY == X \o Y
            U == Range(XY)
        IN  /\ total = Binomial(2 * n, n)
            /\ Len(partitions) = total
            /\ \A k \in 1..Len(partitions) : Len(partitions[k]) = n
            /\ total_true = Cardinality({k \in 1..Len(partitions) :
                   RatGreater(weat_differential_association(
                                  partitions[k], Complement(XY, partitions[k]),
                                  A, B, embeddings), s)})
            /\ DistinctWords(XY) =>
                  /\ {Range(partitions[k]) : k \in 1..Len(partitions)} = HalfSubsets(U)
                  /\ Cardinality(HalfSubsets(U)) = total
                  /\ s = SplitStatistic(Range(X), U)
                  /\ total_true = Cardinality({S \in HalfSubsets(U) :
                                                  RatGreater(SplitStatistic(S, U), s)})
            /\ p = Rat(total_true, total)
            /\ p[2] > 0 /\ 0 <= p[1] /\ p[1] <= p[2]

\* Two distinct words on each side: six partitions, some but not all of
\* them exceeding s.
C3_Witness ==
    /\ wpc = "done"
    /\ Len(X) = 2
    /\ Len(Y) = 2
    /\ DistinctWords(X \o Y)
    /\ total = 6
    /\ total_true > 0
    /\ total_true < total

\* C4 (as claimed): in every iteration of the permutation test (X_i, Y_i)
\* splits X + Y into two lists of len(X) words each, every word occurrence
\* of X + Y being in exactly one of them, also when a word is repeated.
C4_EveryIterationSplitsEvenly ==
    (wpc \in {"loop", "done"} /\ pidx >= 1 /\ Len(X) = Len(Y)) =>
        /\ Len(X_i) = Len(X)
        /\ Len(Y_i) = Len(X)
        /\ \A w \in Range(X \o Y) :
              Count(w, X_i) + Count(w, Y_i) = Count(w, X \o Y)

\* C5: for |X| = |Y| with distinct words, p(X, Y) + p(Y, X) equals 1 minus
\* the fraction of enumerated partitions whose statistic equals s; the sum
\* is 1 when no partition ties with s.
C5_SwapComplementsUpToTies ==
    (wpc = "done" /\ swapped /\ Len(X) = Len(Y) /\ DistinctWords(X \o Y)) =>
        LET U == Range(X \o Y)
            ties == Cardinality({S \in HalfSubsets(U) : SplitStatistic(S, U) = s})
        IN  /\ RatAdd(p_first, p) = RatSub(<<1, 1>>, Rat(ties, total))
            /\ ties = 0 => RatAdd(p_first, p) = <<1, 1>>

\* Both calls returned a non-zero p-value for two distinct words a side.
C5_Witness ==
    /\ wpc = "done"
    /\ swapped
    /\ Len(X) = 2
    /\ Len(Y) = 2
    /\ DistinctWords(X \o Y)
    /\ p_first[1] > 0
    /\ p[1] > 0
    /\ p_first # p

\* C13 (as claimed): p_value_permutation_test called with len(X) # len(Y)
\* ends in an error: it never returns a p-value for target lists of unequal
\* size.
C13_UnequalSizesRejected ==
    Len(X) # Len(Y) => ~(wpc = "done" /\ p # <<>>)

\* ------------------------------------------------------------------------
\* PART 2: projection and hard debiasing
\*
\* A numpy array is an object: arrays maps object ids to vectors of exact
\* rationals, and a table maps words to object ids, so that an operation
\* that writes into an existing array and one that returns a new array are
\* different.  The arrays a function builds and drops are not kept.
\* ------------------------------------------------------------------------

RatMul(a, b) ==
    IF IsNaN(a) \/ IsNaN(b) THEN NaN ELSE Rat(a[1] * b[1], a[2] * b[2])

\* a / b.  A zero divisor is met only with a zero dividend here (b is
\* np.dot(v, v), which is zero only for the zero vector), and 0/0 is NaN.
RatDiv(a, b) ==
    IF IsNaN(a) \/ IsNaN(b) \/ b[1] = 0 THEN NaN ELSE Rat(a[1] * b[2], a[2] * b[1])

\* np.dot of two real vectors.
RDot(a, b) == RatSum([k \in 1..Len(a) |-> RatMul(a[k], b[k])])

RVecSub(a, b) == [k \in 1..Len(a) |-> RatSub(a[k], b[k])]

RVecAdd(a, b) == [k \in 1..Len(a) |-> RatAdd(a[k], b[k])]

RVecScale(c, a) == [k \in 1..Len(a) |-> RatMul(c, a[k])]

RZero(n) == [k \in 1..n |-> <<0, 1>>]

\* Mutant: the scalar is not divided by np.dot(b, b) (right only for a
\* direction of unit length).
project_undivided(a, b) ==
    LET scalar == RDot(a, b)
    IN  <<scalar, RVecScale(scalar, b)>>

\* project(a, b): returns <<scalar, vector_projection>>.
project(a, b) ==
    LET scalar == RatDiv(RDot(a, b), RDot(b, b))
        vector_projection == RVecScale(scalar, b)
    IN  <<scalar, vector_projection>>

\* The rows compute_gender_subspace hands to PCA: for every pair the male
\* and the female embedding, each minus the mean of the two.
RECURSIVE gender_attribute_embeddings(_, _, _)
gender_attribute_embeddings(h, tbl, pairs) ==
    IF pairs = <<>> THEN <<>>
    ELSE LET male_embedding == h[tbl[Head(pairs)[1]]]
             female_embedding == h[tbl[Head(pairs)[2]]]
             mean_embedding == RVecScale(<<1, 2>>, RVecAdd(male_embedding, female_embedding))
         IN  <<RVecSub(male_embedding, mean_embedding),
               RVecSub(female_embedding, mean_embedding)>>
             \o gender_attribute_embeddings(h, tbl, Tail(pairs))

Parallel(a, b) ==
    \A i, j \in 1..Len(a) : RatMul(a[i], b[j]) = RatMul(a[j], b[i])

\* The rows lie on one line through the origin.
Collinear(rows) == \A i, j \in 1..Len(rows) : Parallel(rows[i], rows[j])

\* compute_gender_subspace with n_components = 1, for rows on one line:
\* the first principal axis is that line (the first coordinate axis when
\* every row is zero).  The result is a vector along the axis, in either
\* orientation; its length, 1 in the program, is not modelled: project
\* gives the same vector projection for every length.
compute_gender_subspace(h, tbl, pairs) ==
    LET rows == gender_attribute_embeddings(h, tbl, pairs)
        nonzero == {k \in 1..Len(rows) : rows[k] # RZero(Len(rows[k]))}
    IN  IF nonzero = {}
        THEN {[k \in 1..Len(rows[1]) |-> IF k = 1 THEN <<1, 1>> ELSE <<0, 1>>]}
        ELSE LET r == rows[CHOOSE k \in nonzero : \A m \in nonzero : k <= m]
             IN  {RVecScale(<<2, 1>>, r), RVecScale(<<0 - 2, 1>>, r)}

\* Mutant: the projection is subtracted in place (word_embed -= ...).
debias_in_place(h, tbl, word, gs) ==
    LET word_embed == h[tbl[word]]
        gender_vector == project(word_embed, gs)[2]
    IN  [arrays |-> [h EXCEPT ![tbl[word]] = RVecSub(word_embed, gender_vector)],
         ref |-> tbl[word]]

\* debias_word_embedding(word, word_to_embedding, gender_subspace): the
\* subtraction builds a new array, which is returned.
debias_word_embedding(h, tbl, word, gs) ==
    LET word_embed == h[tbl[word]]
        gender_vector == project(word_embed, gs)[2]
        result == RVecSub(word_embed, gender_vector)
    IN  [arrays |-> Append(h, result), ref |-> Len(h) + 1]

\* The dict comprehension of hard_debias, over the words in table order.
RECURSIVE hard_debias_items(_, _, _, _, _)
hard_debias_items(h, tbl, words, gs, out) ==
    IF words = <<>> THEN [arrays |-> h, table |-> out]
    ELSE LET r == debias_word_embedding(h, tbl, Head(words), gs)
         IN  hard_debias_items(r.arrays, tbl, Tail(words), gs,
                               [w \in DOMAIN out \cup {Head(words)} |->
                                   IF w = Head(words) THEN r.ref ELSE out[w]])

DebiasWords == <<"he", "she", "nurse">>

\* hard_debias, given the direction compute_gender_subspace returned.
hard_debias(h, tbl, gs) ==
    hard_debias_items(h, tbl, SelectSeq(DebiasWords, LAMBDA w : w \in DOMAIN tbl), gs, <<>>)

\* The sequences of n naturals that add up to at most m.
RECURSIVE Coordinates(_, _)
Coordinates(n, m) ==
    IF n = 0 THEN {<<>>}
    ELSE UNION {{<<c>> \o q : q \in Coordinates(n - 1, m - c)} : c \in 0..m}

\* The arrays of the embedding tables: one vector of DebiasDim natural
\* coordinates for each word, the coordinates of a table adding up to at
\* most MaxCoordSum.
TableArraysInit ==
    {[w \in 1..Len(DebiasWords) |->
         [k \in 1..DebiasDim |-> <<q[(w - 1) * DebiasDim + k], 1>>]] :
        q \in Coordinates(Len(DebiasWords) * DebiasDim, MaxCoordSum)}

\* Directions handed to debias_word_embedding, the zero vector included.
Directions == [1..DebiasDim -> {<<c, 1>> : c \in (0 - 1)..1}]

\* The gender attribute pairs: two different words of the table, in table
\* order.
GenderPairs ==
    UNION {{<<DebiasWords[i], DebiasWords[j]>> : j \in (i + 1)..Len(DebiasWords)} :
              i \in 1..Len(DebiasWords)}

PairLists == {q \in SeqsUpTo(GenderPairs, MaxPairs) : Len(q) >= 1}

InitDebias ==
    /\ word_to_embedding = [w \in Range(DebiasWords) |->
                               CHOOSE k \in 1..Len(DebiasWords) : DebiasWords[k] = w]
    /\ arrays \in TableArraysInit
    /\ gender_subspace = <<>>
    /\ dop = "none"
    /\ dword = ""
    /\ dresult = 0
    /\ dresult2 = 0
    /\ debiased = <<>>
    /\ WindowIdle
    /\ TrainIdle
    /\ WeatIdle
    /\ NumericIdle
    /\ SimilarIdle
    /\ ProfessionIdle

\* A call debias_word_embedding(word, word_to_embedding, gender_subspace).
DebiasWord ==
    /\ dop = "none"
    /\ \E w \in DOMAIN word_to_embedding, gs \in Directions :
          LET r == debias_word_embedding(arrays, word_to_embedding, w, gs)
          IN  /\ arrays' = r.arrays
              /\ dresult' = r.ref
              /\ dword' = w
              /\ gender_subspace' = gs
    /\ dop' = "debias_word"
    /\ UNCHANGED <<word_to_embedding, dresult2, debiased>>
    /\ UNCHANGED notDebias

\* The returned vector debiased again along the same direction: a call
\* debias_word_embedding(word, {word: result}, gender_subspace).
DebiasAgain ==
    /\ dop = "debias_word"
    /\ LET r == debias_word_embedding(arrays, [w \in {dword} |-> dresult],
                                      dword, gender_subspace)
       IN  /\ arrays' = r.arrays
           /\ dresult2' = r.ref
    /\ dop' = "debias_again"
    /\ UNCHANGED <<word_to_embedding, gender_subspace, dword, dresult, debiased>>
    /\ UNCHANGED notDebias

\* A call hard_debias(word_to_embedding, gender_attribute_words).
HardDebias ==
    /\ dop = "none"
    /\ \E pairs \in PairLists :
          /\ Collinear(gender_attribute_embeddings(arrays, word_to_embedding, pairs))
          /\ \E gs \in compute_gender_subspace(arrays, word_to_embedding, pairs) :
                LET r == hard_debias(arrays, word_to_embedding, gs)
                IN  /\ arrays' = r.arrays
                    /\ debiased' = r.table
                    /\ gender_subspace' = gs
    /\ dop' = "hard_debias"
    /\ UNCHANGED <<word_to_embedding, dword, dresult, dresult2>>
    /\ UNCHANGED notDebias

NextDebias ==
    \/ DebiasWord
    \/ DebiasAgain
    \/ HardDebias

SpecDebias == InitDebias /\ [][NextDebias]_vars

\* ------------------------------------------------------------------------
\* Properties of projection and hard debiasing
\* ------------------------------------------------------------------------

\* The value each word of the input table maps to.
TableValues == [w \in DOMAIN word_to_embedding |-> arrays[word_to_embedding[w]]]

TableArrays == {word_to_embedding[w] : w \in DOMAIN word_to_embedding}

\* C9: hard_debias returns a new table with the key set of the input table
\* and leaves the input table unchanged: every word of the input maps to
\* the same vector value after the call as before; debias_word_embedding
\* likewise returns a new vector and does not change the word's entry.
C9_InputTableUnchanged ==
    [][/\ TableValues' = TableValues
       /\ dop' = "hard_debias" =>
             /\ DOMAIN debiased' = DOMAIN word_to_embedding
             /\ \A w \in DOMAIN debiased' : debiased'[w] \notin TableArrays
       /\ dop' = "debias_word" => dresult' \notin TableArrays]_vars

\* hard_debias has returned a table in which some word's vector differs
\* from the vector the input table holds for it.
C9_Witness ==
    /\ dop = "hard_debias"
    /\ DOMAIN debiased = DOMAIN word_to_embedding
    /\ \E w \in DOMAIN debiased :
          arrays[debiased[w]] # arrays[word_to_embedding[w]]

\* C10: for a non-zero direction b, a minus the vector projection of
\* project(a, b) has zero dot product with b; so the vector returned by
\* debias_word_embedding has zero projection onto the bias direction, and
\* debiasing it again along the same direction returns it unchanged.
C10_DebiasedIsOrthogonal ==
    LET gs == gender_subspace
        zero == <<0, 1>>
    IN  /\ (dop \in {"debias_word", "debias_again"} /\ gs # RZero(DebiasDim)) =>
              LET a == arrays[word_to_embedding[dword]]
                  r == arrays[dresult]
              IN  /\ r = RVecSub(a, project(a, gs)[2])
                  /\ RDot(r, gs) = zero
                  /\ project(r, gs)[1] = zero
                  /\ project(r, gs)[2] = RZero(DebiasDim)
        /\ (dop = "debias_again" /\ gs # RZero(DebiasDim)) =>
              arrays[dresult2] = arrays[dresult]
        /\ dop = "hard_debias" =>
              \A w \in DOMAIN debiased : RDot(arrays[debiased[w]], gs) = zero

\* A word with a component along a direction that is no coordinate axis
\* was debiased twice, and a non-zero vector remains.
C10_Witness ==
    /\ dop = "debias_again"
    /\ RDot(gender_subspace, gender_subspace) = <<2, 1>>
    /\ arrays[dresult] # arrays[word_to_embedding[dword]]
    /\ arrays[dresult] # RZero(DebiasDim)
    /\ dresult2 # dresult

\* ------------------------------------------------------------------------
\* PART 2: project and cosine_similarity called directly
\*
\* The arguments are integer vectors whose norm is an integer, the zero
\* vector among them.
\* ------------------------------------------------------------------------

MaxCoord == 3       \* largest absolute value of a coordinate of an argument

IntegerNormVectors ==
    {v \in [1..DebiasDim -> (0 - MaxCoord)..MaxCoord] :
        Norm(v) * Norm(v) = Dot(v, v)}

\* The integer vector v as a vector of reals.
AsReal(v) == [k \in 1..Len(v) |-> <<v[k], 1>>]

IsZeroVector(v) == \A k \in 1..Len(v) : v[k] = 0

InitNumeric ==
    /\ fa \in IntegerNormVectors
    /\ fb \in IntegerNormVectors
    /\ fop = "none"
    /\ fout = <<>>
    /\ ferr = "none"
    /\ WindowIdle
    /\ TrainIdle
    /\ WeatIdle
    /\ DebiasIdle
    /\ SimilarIdle
    /\ ProfessionIdle

\* A call project(a, b).  numpy divides 0.0 by 0.0 into nan (with a
\* warning, not an exception); the call returns.
CallProject ==
    /\ fop = "none"
    /\ fop' = "project"
    /\ fout' = project(AsReal(fa), AsReal(fb))
    /\ UNCHANGED <<fa, fb, ferr>>
    /\ UNCHANGED notNumeric

\* A call cosine_similarity(a, b).
CallCosineSimilarity ==
    /\ fop = "none"
    /\ fop' = "cosine_similarity"
    /\ fout' = cosine_similarity(fa, fb)
    /\ UNCHANGED <<fa, fb, ferr>>
    /\ UNCHANGED notNumeric

NextNumeric ==
    \/ CallProject
    \/ CallCosineSimilarity

SpecNumeric == InitNumeric /\ [][NextNumeric]_vars

\* C12 (as claimed): project(a, b) with b the zero vector, and
\* cosine_similarity(a, b) with a or b the zero vector, end in a domain
\* error and return no value.
C12_ZeroVectorIsDomainError ==
    (\/ fop = "project" /\ IsZeroVector(fb)
     \/ fop = "cosine_similarity" /\ (IsZeroVector(fa) \/ IsZeroVector(fb)))
        => (ferr # "none" /\ fout = <<>>)

\* ------------------------------------------------------------------------
\* PART 1: similar words and analogies
\*
\* The embedding matrix has one row of SimDim integers for each word of the
\* vocabulary.  Rows are numbered from 0, as tensor indices are.
\* ------------------------------------------------------------------------

SimRows == 3        \* number of words (rows of the embedding matrix)
SimDim == 2         \* length of a row
MaxSimSum == 2      \* largest sum of the entries of the embedding matrix

SimVocabulary == <<"w0", "w1", "w2", "w3", "w4", "w5">>

\* index_map and index_to_word of the first SimRows words.
index_map == [w \in {SimVocabulary[i] : i \in 1..SimRows} |->
                 (CHOOSE i \in 1..SimRows : SimVocabulary[i] = w) - 1]

index_to_word == [i \in 0..(SimRows - 1) |-> SimVocabulary[i + 1]]

\* Row idx of a matrix (w2v_emb_weight[idx]).
Row(M, idx) == M[idx + 1]

\* The cosine of the angle between row r and the query q, as F.normalize
\* and the product give it: r / max(|r|, eps) . q / max(|q|, eps), which is
\* 0 when r or q is the zero vector.  The value kept is sign(c) * c^2 for
\* the cosine c: it is rational and orders as c does.
cosine(r, q) ==
    LET d == Dot(r, q)
        n == Dot(r, r) * Dot(q, q)
    IN  IF n = 0 THEN <<0, 1>> ELSE Rat(Sign(d) * d * d, n)

\* similarity = torch.matmul(w2v_emb_weight_normalized, word_emb_normalized),
\* indexed from 0.
similarity(M, q) == [idx \in 0..(Len(M) - 1) |-> cosine(Row(M, idx), q)]

\* torch.topk(sim, n).indices: n indices of largest values in descending
\* order of value; which of several equal values comes first, and which of
\* them is left out, is not specified, so this is the set of the possible
\* index lists.  avoid holds the indices already taken.
RECURSIVE topk_indices(_, _, _)
topk_indices(sim, n, avoid) ==
    IF n = 0 THEN {<<>>}
    ELSE LET rest == (DOMAIN sim) \ avoid
             best == {i \in rest : \A j \in rest : ~RatGreater(sim[j], sim[i])}
         IN  UNION {{<<i>> \o t : t \in topk_indices(sim, n - 1, avoid \cup {i})} :
                       i \in best}

\* Mutant: the last of the k + 1 indices is dropped instead of the first
\* (top_k.indices[:-1]).
compute_topk_similar_keep_first(q, M, kk) ==
    IF kk + 1 > Len(M)
    THEN {[exc |-> "RuntimeError", top_k |-> <<>>, ret |-> <<>>]}
    ELSE {[exc |-> "none", top_k |-> t, ret |-> SubSeq(t, 1, Len(t) - 1)] :
             t \in topk_indices(similarity(M, q), kk + 1, {})}

\* compute_topk_similar(word_emb, w2v_emb_weight, k): the possible outcomes.
\* torch.topk raises RuntimeError when k + 1 exceeds the number of rows.
compute_topk_similar(q, M, kk) ==
    IF kk + 1 > Len(M)
    THEN {[exc |-> "RuntimeError", top_k |-> <<>>, ret |-> <<>>]}
    ELSE {[exc |-> "none", top_k |-> t, ret |-> Tail(t)] :
             t \in topk_indices(similarity(M, q), kk + 1, {})}

\* The embedding matrices: naturals adding up to at most MaxSimSum.
Matrices ==
    {[r \in 1..SimRows |-> [c \in 1..SimDim |-> q[(r - 1) * SimDim + c]]] :
        q \in Coordinates(SimRows * SimDim, MaxSimSum)}

VecSub(a, b) == [c \in 1..Len(a) |-> a[c] - b[c]]

InitSimilar ==
    /\ w2v_emb_weight \in Matrices
    /\ sim_op = "none"
    /\ sim_words = <<>>
    /\ k_arg = 0
    /\ word_emb = <<>>
    /\ top_k = <<>>
    /\ results = <<>>
    /\ sim_exc = "none"
    /\ WindowIdle
    /\ TrainIdle
    /\ WeatIdle
    /\ DebiasIdle
    /\ NumericIdle
    /\ ProfessionIdle

\* The end of both callers: the outcome r of compute_topk_similar, and
\* results = [index_to_word[idx] for idx in top_k].
SimilarReturn(r) ==
    /\ sim_exc' = r.exc
    /\ top_k' = r.top_k
    /\ results' = IF r.exc = "none"
                  THEN [i \in 1..Len(r.ret) |-> index_to_word[r.ret[i]]]
                  ELSE <<>>

\* A call retrieve_similar_words(model, word, index_map, index_to_word, k).
RetrieveSimilarWords ==
    /\ sim_op = "none"
    /\ \E word \in DOMAIN index_map, kk \in 0..SimRows :
          LET word_index == index_map[word]
              emb == Row(w2v_emb_weight, word_index)
          IN  /\ sim_words' = <<word>>
              /\ k_arg' = kk
              /\ word_emb' = emb
              /\ \E r \in compute_topk_similar(emb, w2v_emb_weight, kk) :
                    SimilarReturn(r)
    /\ sim_op' = "retrieve_similar_words"
    /\ UNCHANGED w2v_emb_weight
    /\ UNCHANGED notSimilar

\* A call word_analogy(model, word_a, word_b, word_c, index_map,
\* index_to_word, k), for two different words a and b (with a = b the query
\* is the row of c, the query of retrieve_similar_words).
WordAnalogy ==
    /\ sim_op = "none"
    /\ \E word_a, word_b, word_c \in DOMAIN index_map, kk \in 0..SimRows :
          /\ word_a # word_b
          /\ LET word_a_emb == Row(w2v_emb_weight, index_map[word_a])
                 word_b_emb == Row(w2v_emb_weight, index_map[word_b])
                 word_c_emb == Row(w2v_emb_weight, index_map[word_c])
                 analogy_emb == VecAdd(VecSub(word_a_emb, word_b_emb), word_c_emb)
             IN  /\ sim_words' = <<word_a, word_b, word_c>>
                 /\ k_arg' = kk
                 /\ word_emb' = analogy_emb
                 /\ \E r \in compute_topk_similar(analogy_emb, w2v_emb_weight, kk) :
                       SimilarReturn(r)
    /\ sim_op' = "word_analogy"
    /\ UNCHANGED w2v_emb_weight
    /\ UNCHANGED notSimilar

NextSimilar ==
    \/ RetrieveSimilarWords
    \/ WordAnalogy

SpecSimilar == InitSimilar /\ [][NextSimilar]_vars

\* ------------------------------------------------------------------------
\* Properties of similar words and analogies
\* ------------------------------------------------------------------------

\* The rankings of all rows by similarity in descending order: the lists of
\* every row index once in which no later row is more similar than an
\* earlier one.
Rankings(sim) ==
    LET n == Cardinality(DOMAIN sim)
    IN  {r \in [1..n -> DOMAIN sim] :
            /\ \A i, j \in 1..n : i # j => r[i] # r[j]
            /\ \A i, j \in 1..n : i < j => ~RatGreater(sim[r[j]], sim[r[i]])}

MaxProfessions == 2     \* largest number of phrases in professions
MaxChars == 4           \* largest number of characters of all phrases together

Chars == {"a", "b", " "}

\* str.split(): the maximal runs of characters other than whitespace, in
\* order.  cur is the run being read.
RECURSIVE split_from(_, _)
split_from(str, cur) ==
    LET done == IF cur = <<>> THEN <<>> ELSE <<cur>>
    IN  IF str = <<>> THEN done
        ELSE IF Head(str) = " " THEN done \o split_from(Tail(str), <<>>)
        ELSE split_from(Tail(str), Append(cur, Head(str)))

split(str) == split_from(str, <<>>)

\* np.mean(embeddings, axis=0) of a list of vectors; nan for the empty list.
mean_axis0(q) ==
    IF q = <<>> THEN NaN
    ELSE [c \in 1..Len(q[1]) |-> RatMean([i \in 1..Len(q) |-> q[i][c]])]

\* Mutant: a constituent word that is not in the table is left out of the
\* mean (if word in word_to_embedding).
profession_embedding_skipping(tbl, profession) ==
    IF profession \in DOMAIN tbl
    THEN [exc |-> "none", lookups |-> <<profession>>,
          value |-> mean_axis0(<<tbl[profession]>>)]
    ELSE LET words == SelectSeq(split(profession), LAMBDA w : w \in DOMAIN tbl)
         IN  [exc |-> "none", lookups |-> <<profession>> \o words,
              value |-> mean_axis0([i \in 1..Len(words) |-> tbl[words[i]]])]

\* The body of the loop for one profession: the exception it ends in, the
\* keys it looks up and the value it stores.
profession_embedding(tbl, profession) ==
    IF profession \in DOMAIN tbl
    THEN [exc |-> "none", lookups |-> <<profession>>,
          value |-> mean_axis0(<<tbl[profession]>>)]
    ELSE LET words == split(profession)
             missing == {i \in 1..Len(words) : words[i] \notin DOMAIN tbl}
         IN  IF missing = {}
             THEN [exc |-> "none", lookups |-> <<profession>> \o words,
                   value |-> mean_axis0([i \in 1..Len(words) |-> tbl[words[i]]])]
             ELSE LET first == CHOOSE i \in missing : \A j \in missing : i <= j
                  IN  [exc |-> "KeyError",
                       lookups |-> <<profession>> \o SubSeq(words, 1, first),
                       value |-> <<>>]

\* d[key] = value
DictSet(d, key, value) ==
    [x \in (DOMAIN d) \cup {key} |-> IF x = key THEN value ELSE d[x]]

\* The largest table: two words and the phrase made of them, the phrase
\* with an embedding of its own.
FullTable ==
    (<<"a">> :> <<(<<1, 1>>), (<<0, 1>>)>>)
    @@ (<<"b">> :> <<(<<0, 1>>), (<<1, 1>>)>>)
    @@ (<<"a", " ", "b">> :> <<(<<1, 1>>), (<<1, 1>>)>>)

Tables == {[x \in keys |-> FullTable[x]] : keys \in SUBSET (DOMAIN FullTable)}

\* The lists of at most MaxProfessions strings of at most MaxChars
\* characters together.
ProfessionLists ==
    UNION {{Cut(flat, lens) : flat \in [1..SumSeq(lens) -> Chars]} :
              lens \in {l \in SeqsUpTo(0..MaxChars, MaxProfessions) :
                           SumSeq(l) <= MaxChars}}

InitProfession ==
    /\ prof_table \in Tables
    /\ professions \in ProfessionLists
    /\ prof_idx = 0
    /\ profession_embeddings = <<>>
    /\ prof_lookups = <<>>
    /\ prof_pc = "loop"
    /\ prof_exc = "none"
    /\ WindowIdle
    /\ TrainIdle
    /\ WeatIdle
    /\ DebiasIdle
    /\ NumericIdle
    /\ SimilarIdle

\* One iteration of "for profession in professions".
ProfessionIter ==
    /\ prof_pc = "loop"
    /\ prof_idx < Len(professions)
    /\ LET profession == professions[prof_idx + 1]
           r == profession_embedding(prof_table, profession)
       IN  /\ prof_lookups' = prof_lookups \o r.lookups
           /\ IF r.exc = "none"
              THEN /\ profession_embeddings' =
                        DictSet(profession_embeddings, profession, r.value)
                   /\ prof_idx' = prof_idx + 1
                   /\ UNCHANGED <<prof_pc, prof_exc>>
              ELSE /\ prof_pc' = "raised"
                   /\ prof_exc' = r.exc
                   /\ UNCHANGED <<profession_embeddings, prof_idx>>
    /\ UNCHANGED <<prof_table, professions>>
    /\ UNCHANGED notProfession

\* return profession_embeddings
ProfessionReturn ==
    /\ prof_pc = "loop"
    /\ prof_idx = Len(professions)
    /\ prof_pc' = "done"
    /\ UNCHANGED <<prof_table, professions, prof_idx, profession_embeddings,
                   prof_lookups, prof_exc>>
    /\ UNCHANGED notProfession

NextProfession ==
    \/ ProfessionIter
    \/ ProfessionReturn

SpecProfession == InitProfession /\ [][NextProfession]_vars

\* ------------------------------------------------------------------------
\* Properties of profession embeddings
\* ------------------------------------------------------------------------

\* The constituent words of a phrase, by position: <<i, j>> is a run of
\* characters other than whitespace that no such character precedes or
\* follows.
Runs(str) ==
    {r \in (1..Len(str)) \X (1..Len(str)) :
        /\ r[1] <= r[2]
        /\ \A t \in r[1]..r[2] : str[t] # " "
        /\ r[1] = 1 \/ str[r[1] - 1] = " "
        /\ r[2] = Len(str) \/ str[r[2] + 1] = " "}

\* The constituent words from left to right.
Constituents(str) ==
    LET R == Runs(str)
        nth(n) == CHOOSE r \in R : Cardinality({q \in R : q[1] < r[1]}) = n - 1
    IN  [n \in 1..Cardinality(R) |-> SubSeq(str, nth(n)[1], nth(n)[2])]

\* The phrase is absent as a whole and so is one of its constituent words.
Unresolvable(str) ==
    /\ str \notin DOMAIN prof_table
    /\ \E n \in 1..Len(Constituents(str)) : Constituents(str)[n] \notin DOMAIN prof_table

\* The mean of the embeddings of the constituent words of a phrase, all in
\* the table (nan for a phrase without words).
ConstituentMean(str) ==
    LET w == Constituents(str)
    IN  IF w = <<>> THEN NaN
        ELSE [c \in 1..2 |->
                 LET t == RatSum([n \in 1..Len(w) |-> prof_table[w[n]][c]])
                 IN  Rat(t[1], t[2] * Len(w))]

\* Number of table lookups a phrase needs: itself, then, if it is absent,
\* its constituent words.
LookupCount(str) ==
    IF str \in DOMAIN prof_table THEN 1 ELSE 1 + Len(Constituents(str))

\* C15: the call ends in KeyError exactly if some phrase is absent as a
\* whole together with one of its constituent words, and then at the first
\* such phrase; otherwise it returns a dict with every phrase of the list
\* as a key, where a phrase that is in the table has exactly its own
\* embedding (found with the one lookup of the phrase) and a phrase that is
\* not has the mean of the embeddings of its whitespace-separated words.
C15_LookupWithFallback ==
    /\ prof_pc = "raised" <=> prof_exc = "KeyError"
    /\ prof_pc \in {"done", "raised"} =>
          (prof_exc = "KeyError" <=>
              \E i \in 1..Len(professions) : Unresolvable(professions[i]))
    /\ prof_pc = "raised" =>
          /\ Unresolvable(professions[prof_idx + 1])
          /\ \A i \in 1..prof_idx : ~Unresolvable(professions[i])
    /\ prof_pc = "done" =>
          /\ DOMAIN profession_embeddings = Range(professions)
          /\ \A str \in Range(professions) :
                profession_embeddings[str] =
                    IF str \in DOMAIN prof_table THEN prof_table[str]
                    ELSE ConstituentMean(str)
          /\ Len(prof_lookups) =
                SumSeq([i \in 1..Len(professions) |-> LookupCount(professions[i])])

\* C15 witness: a call returned for a list of two phrases, one found in the
\* table as a whole and one absent as a whole whose two words were averaged
\* into a vector that is no embedding of the table.
C15_Witness ==
    /\ prof_pc = "done"
    /\ Len(professions) = 2
    /\ \E str \in Range(professions) : str \in DOMAIN prof_table
    /\ \E str \in Range(professions) :
          /\ str \notin DOMAIN prof_table
          /\ Len(Constituents(str)) = 2
          /\ \A x \in DOMAIN prof_table : prof_table[x] # profession_embeddings[str]

====
